---- MODULE Spec2Model ----
(***************************************************************************)
(* Struct field access, projection and formatting of vaex                  *)
(* (packages/vaex-core/vaex/struct.py), over pyarrow struct arrays.        *)
(*                                                                         *)
(* A column is a record                                                    *)
(*   [isStruct, names, valid, children]                                    *)
(* names    : the field labels of the struct type, in position order       *)
(* valid    : the validity bit of every row (FALSE: the row itself is null)*)
(* children : one child array per field, each holding one cell per row     *)
(* A plain (non-struct) array is kept in the same shape with isStruct      *)
(* FALSE, no names and its cells as the single child.                      *)
(* Field positions are 0-based as in the source; sequences are 1-based.    *)
(***************************************************************************)
EXTENDS Integers, Sequences, FiniteSets, TLC

VARIABLES x, x0, call, result

vars == <<x, x0, call, result>>

-----------------------------------------------------------------------------
(* Bounds of the explored inputs *)

MaxFields == 2
MaxRows == 2
MaxIds == 2

-----------------------------------------------------------------------------
(* Scalars: python values None, int, str, bool *)

Null == [kind |-> "null", i |-> 0, s |-> ""]
IntV(n) == [kind |-> "int", i |-> n, s |-> ""]
StrV(t) == [kind |-> "str", i |-> 0, s |-> t]
BoolV(b) == [kind |-> "bool", i |-> IF b THEN 1 ELSE 0, s |-> ""]

(* Field identifiers: a python str (label) or a python int (position) *)
ByName(t) == [kind |-> "str", i |-> 0, s |-> t]
ByPosition(n) == [kind |-> "int", i |-> n, s |-> ""]

Labels == {"a", "b"}
CellValues == {Null, IntV(1)}
ItemValues == {Null, IntV(1), IntV(2), StrV("x"), BoolV(TRUE), BoolV(FALSE)}

SeqsUpTo(S, n) == UNION {[1..k -> S] : k \in 0..n}

StructColumn(nm, vd, ch) ==
    [isStruct |-> TRUE, names |-> nm, valid |-> vd, children |-> ch]

PlainArray(values) ==
    [isStruct |-> FALSE, names |-> <<>>,
     valid |-> [r \in 1..Len(values) |-> values[r] # Null],
     children |-> <<values>>]

(* The array of the docstrings, struct.py lines 140-145 *)
DocArray ==
    [isStruct |-> TRUE,
     names |-> <<"col1", "col2", "col3">>,
     valid |-> <<TRUE, TRUE>>,
     children |-> << <<IntV(1), IntV(2)>>, <<StrV("a"), StrV("b")>>, <<IntV(3), IntV(4)>> >>]

NumRows(col) == Len(col.valid)
NumFields(dtype) == Len(dtype)
LabelsOf(dtype) == {dtype[p] : p \in 1..Len(dtype)}

-----------------------------------------------------------------------------
(* Results of a call *)

NoColumn == [isStruct |-> FALSE, names |-> <<>>, valid |-> <<>>, children |-> <<>>]
NoItem == [names |-> <<>>, values |-> <<>>]

Outcome(status, kind) ==
    [status |-> status, kind |-> kind, col |-> NoColumn, missing |-> {},
     validFields |-> {}, label |-> "", text |-> "", flag |-> FALSE, item |-> NoItem]

Raise(exc) == Outcome(exc, "none")
ReturnColumn(col) == [Outcome("ok", "column") EXCEPT !.col = col]
ReturnLabel(l) == [Outcome("ok", "label") EXCEPT !.label = l]
ReturnText(t) == [Outcome("ok", "text") EXCEPT !.text = t]
ReturnFlag(b) == [Outcome("ok", "flag") EXCEPT !.flag = b]
ReturnPy(item) == [Outcome("ok", "py") EXCEPT !.item = item]

-----------------------------------------------------------------------------
(* pyarrow: index normalisation of an int index (negative indices wrap) *)
NormalizeIndex(index, length) ==
    IF index < 0
    THEN (IF index + length < 0 THEN -1 ELSE index + length)
    ELSE (IF index >= length THEN -1 ELSE index)

(* pyarrow StructType.get_field_index: -1 when absent or ambiguous *)
PositionsOf(dtype, name) == {p \in 0..(Len(dtype) - 1) : dtype[p + 1] = name}

GetFieldIndex(dtype, name) ==
    IF Cardinality(PositionsOf(dtype, name)) = 1
    THEN CHOOSE p \in PositionsOf(dtype, name) : TRUE
    ELSE -1

(* pyarrow StructArray.field(index): the child array of one field, as       *)
(* stored; the validity of the parent rows is not applied to it             *)
StructArrayField(col, index) ==
    IF index.kind = "str"
    THEN IF GetFieldIndex(col.names, index.s) = -1
         THEN Raise("KeyError")
         ELSE ReturnColumn(PlainArray(col.children[GetFieldIndex(col.names, index.s) + 1]))
    ELSE IF NormalizeIndex(index.i, Len(col.names)) = -1
         THEN Raise("IndexError")
         ELSE ReturnColumn(PlainArray(col.children[NormalizeIndex(index.i, Len(col.names)) + 1]))

-----------------------------------------------------------------------------
(* struct.py *)

(* Variant: the comparison admits equality *)
is_duplicated_or_equal(dtype) ==
    Cardinality(LabelsOf(dtype)) <= NumFields(dtype)

is_struct_dtype_with_duplicated_field_labels(dtype) ==
    Cardinality(LabelsOf(dtype)) < NumFields(dtype)

(* Variant: the position len(dtype) is taken for the last field *)
_get_struct_field_label_off_by_one(dtype, identifier) ==
    IF identifier.kind = "str"
    THEN ReturnLabel(identifier.s)
    ELSE IF identifier.i = Len(dtype) /\ Len(dtype) > 0
         THEN ReturnLabel(dtype[Len(dtype)])
         ELSE IF NormalizeIndex(identifier.i, Len(dtype)) = -1
              THEN Raise("IndexError")
              ELSE ReturnLabel(dtype[NormalizeIndex(identifier.i, Len(dtype)) + 1])

_get_struct_field_label(dtype, identifier) ==
    IF identifier.kind = "str"
    THEN ReturnLabel(identifier.s)
    ELSE IF NormalizeIndex(identifier.i, Len(dtype)) = -1
         THEN Raise("IndexError")
         ELSE ReturnLabel(dtype[NormalizeIndex(identifier.i, Len(dtype)) + 1])

(* `field not in valid_fields`: an int is never equal to a label *)
NotInValidFields(field, valid_fields) ==
    IF field.kind = "str" THEN field.s \notin valid_fields ELSE TRUE

non_existant_fields(struct, fields) ==
    {fields[k] : k \in {j \in 1..Len(fields) : NotInValidFields(fields[j], LabelsOf(struct.names))}}

_check_valid_struct_fields(struct, fields) ==
    IF non_existant_fields(struct, fields) # {}
    THEN [Raise("ValueError") EXCEPT !.missing = non_existant_fields(struct, fields),
                                     !.validFields = LabelsOf(struct.names)]
    ELSE Outcome("ok", "none")

(* vaex.expression.StructOperations.assert_struct_dtype *)
assert_struct_dtype(struct) ==
    IF struct.isStruct THEN Outcome("ok", "none") ELSE Raise("TypeMismatch")

(* Variant: the wrapped function runs before the assertion *)
_assert_struct_dtype_after(struct, returned) ==
    IF returned.status # "ok"
    THEN returned
    ELSE IF assert_struct_dtype(struct).status # "ok"
         THEN assert_struct_dtype(struct)
         ELSE returned

(* The wrapper of the decorator: the assertion, then the wrapped function *)
_assert_struct_dtype(struct, returned) ==
    IF assert_struct_dtype(struct).status # "ok"
    THEN assert_struct_dtype(struct)
    ELSE returned

(* pyarrow StructArray.from_arrays(arrays=, names=): a label must be a str; *)
(* no array at all gives the empty array of the empty struct type; the      *)
(* result carries no row-level nulls                                        *)
StructArrayFromArrays(arrays, names) ==
    IF \E k \in 1..Len(names) : names[k].kind # "str"
    THEN Raise("TypeError")
    ELSE IF Len(arrays) = 0
         THEN ReturnColumn([isStruct |-> TRUE, names |-> <<>>, valid |-> <<>>,
                            children |-> <<>>])
         ELSE ReturnColumn([isStruct |-> TRUE,
                            names |-> [k \in 1..Len(names) |-> names[k].s],
                            valid |-> [r \in 1..NumRows(arrays[1]) |-> TRUE],
                            children |-> [k \in 1..Len(arrays) |-> arrays[k].children[1]]])

(* Variant: the first field is returned whatever the identifier *)
struct_get_first_field(x_, field) ==
    IF _check_valid_struct_fields(x_, <<field>>).status # "ok"
    THEN _check_valid_struct_fields(x_, <<field>>)
    ELSE StructArrayField(x_, ByPosition(0))

struct_get_body(x_, field) ==
    IF _check_valid_struct_fields(x_, <<field>>).status # "ok"
    THEN _check_valid_struct_fields(x_, <<field>>)
    ELSE StructArrayField(x_, field)

struct_get(x_, field) == _assert_struct_dtype(x_, struct_get_body(x_, field))

(* arrays = [x.field(field) for field in fields] *)
project_arrays(x_, fields) ==
    [k \in 1..Len(fields) |-> StructArrayField(x_, fields[k])]

struct_project_body(x_, fields) ==
    IF _check_valid_struct_fields(x_, fields).status # "ok"
    THEN _check_valid_struct_fields(x_, fields)
    ELSE IF \E k \in 1..Len(fields) : project_arrays(x_, fields)[k].status # "ok"
         THEN project_arrays(x_, fields)[
                  CHOOSE k \in 1..Len(fields) :
                      /\ project_arrays(x_, fields)[k].status # "ok"
                      /\ \A j \in 1..(k - 1) : project_arrays(x_, fields)[j].status = "ok"]
         ELSE StructArrayFromArrays(
                  [k \in 1..Len(fields) |-> project_arrays(x_, fields)[k].col], fields)

struct_project(x_, fields) == _assert_struct_dtype(x_, struct_project_body(x_, fields))

-----------------------------------------------------------------------------
(* Formatting of one struct item: [names, values], values by position *)

(* json.dumps of a scalar; the strings explored need no escaping *)
json_dumps(v) ==
    CASE v.kind = "null" -> "null"
      [] v.kind = "int" -> ToString(v.i)
      [] v.kind = "bool" -> (IF v.i = 1 THEN "true" ELSE "false")
      [] v.kind = "str" -> "\"" \o v.s \o "\""

RECURSIVE join(_, _)
join(sep, strings) ==
    IF Len(strings) = 0 THEN ""
    ELSE IF Len(strings) = 1 THEN strings[1]
    ELSE strings[1] \o sep \o join(sep, Tail(strings))

(* Variant: the value is looked up by label, which finds the first field *)
(* carrying that label                                                   *)
format_duplicated_by_label(struct_item) ==
    "{" \o join(", ", [p \in 1..Len(struct_item.names) |->
                          "'" \o struct_item.names[p] \o "(" \o ToString(p - 1) \o ")': "
                          \o json_dumps(struct_item.values[
                                 CHOOSE q \in 1..Len(struct_item.names) :
                                     /\ struct_item.names[q] = struct_item.names[p]
                                     /\ \A j \in 1..(q - 1) :
                                            struct_item.names[j] # struct_item.names[p]])]) \o "}"

format_duplicated_struct_item_vaex_style(struct_item) ==
    "{" \o join(", ", [p \in 1..Len(struct_item.names) |->
                          "'" \o struct_item.names[p] \o "(" \o ToString(p - 1) \o ")': "
                          \o json_dumps(struct_item.values[p])]) \o "}"

format_struct_item_vaex_style(struct_item) ==
    IF is_struct_dtype_with_duplicated_field_labels(struct_item.names)
    THEN ReturnText(format_duplicated_struct_item_vaex_style(struct_item))
    ELSE ReturnPy(struct_item)

-----------------------------------------------------------------------------
(* Inputs of the calls *)

UnknownLabel == "zz"

NameIds(col) == {ByName(t) : t \in Labels \cup LabelsOf(col.names) \cup {UnknownLabel}}
PositionIds(n) == {ByPosition(p) : p \in (0 - n - 1)..n}
GetIds(col) == NameIds(col) \cup PositionIds(Len(col.names))
ProjectIds(col) == NameIds(col) \cup {ByPosition(0)}

Schemas == SeqsUpTo(Labels, MaxFields + 1)
StructItems ==
    UNION {{[names |-> nm, values |-> vs] : nm \in [1..f -> Labels], vs \in [1..f -> ItemValues]} :
           f \in 0..MaxFields}

NoId == ByName("")
Call(op) == [op |-> op, field |-> NoId, fields |-> <<>>, dtype |-> <<>>, item |-> NoItem]

-----------------------------------------------------------------------------
Init ==
    /\ \/ \E f \in 0..MaxFields, r \in 0..MaxRows :
             \E nm \in [1..f -> Labels], vd \in [1..r -> BOOLEAN],
                ch \in [1..f -> [1..r -> CellValues]] :
                 x = StructColumn(nm, vd, ch)
       \/ \E values \in SeqsUpTo(CellValues, MaxRows) : x = PlainArray(values)
       \/ x = DocArray
    /\ x0 = x
    /\ call = Call("none")
    /\ result = Outcome("ok", "none")

(* The helper functions take no column: they are called beside one array *)
InitHelpers ==
    /\ x = DocArray
    /\ x0 = x
    /\ call = Call("none")
    /\ result = Outcome("ok", "none")

CallStructGet ==
    /\ call.op = "none"
    /\ \E field \in GetIds(x) :
        /\ call' = [Call("struct_get") EXCEPT !.field = field]
        /\ result' = struct_get(x, field)
    /\ UNCHANGED <<x, x0>>

CallStructProject ==
    /\ call.op = "none"
    /\ \E fields \in SeqsUpTo(ProjectIds(x), MaxIds) :
        /\ call' = [Call("struct_project") EXCEPT !.fields = fields]
        /\ result' = struct_project(x, fields)
    /\ UNCHANGED <<x, x0>>

CallGetStructFieldLabel ==
    /\ call.op = "none"
    /\ \E dtype \in Schemas :
        \E identifier \in NameIds(NoColumn) \cup PositionIds(Len(dtype)) :
            /\ call' = [Call("_get_struct_field_label") EXCEPT !.dtype = dtype, !.field = identifier]
            /\ result' = _get_struct_field_label(dtype, identifier)
    /\ UNCHANGED <<x, x0>>

CallIsDuplicated ==
    /\ call.op = "none"
    /\ \E dtype \in Schemas :
        /\ call' = [Call("is_struct_dtype_with_duplicated_field_labels") EXCEPT !.dtype = dtype]
        /\ result' = ReturnFlag(is_struct_dtype_with_duplicated_field_labels(dtype))
    /\ UNCHANGED <<x, x0>>

CallFormatStructItem ==
    /\ call.op = "none"
    /\ \E item \in StructItems :
        /\ call' = [Call("format_struct_item_vaex_style") EXCEPT !.item = item]
        /\ result' = format_struct_item_vaex_style(item)
    /\ UNCHANGED <<x, x0>>

(* The caller takes the outcome; the next call starts afresh *)
Return ==
    /\ call.op # "none"
    /\ call' = Call("none")
    /\ result' = Outcome("ok", "none")
    /\ UNCHANGED <<x, x0>>

Next ==
    \/ CallStructGet
    \/ CallStructProject
    \/ Return

NextHelpers ==
    \/ CallGetStructFieldLabel
    \/ CallIsDuplicated
    \/ CallFormatStructItem
    \/ Return

Spec == Init /\ [][Next]_vars

SpecHelpers == InitHelpers /\ [][NextHelpers]_vars

-----------------------------------------------------------------------------
(* Properties *)

IsGet == call.op = "struct_get"
IsProject == call.op = "struct_project"
Requested == IF IsGet THEN <<call.field>> ELSE call.fields
RequestedIds == {Requested[k] : k \in 1..Len(Requested)}
AbsentNames == {id \in RequestedIds : id.kind = "str" /\ id.s \notin LabelsOf(x.names)}
InRange(id, n) == id.kind = "int" /\ 0 <= id.i /\ id.i < n
ValidId(id) == IF id.kind = "str" THEN id.s \in LabelsOf(x.names) ELSE InRange(id, Len(x.names))
PositionsInRange == \A id \in RequestedIds : id.kind = "int" => InRange(id, Len(x.names))
Cells(col) == col.children[1]

(* C1, as stated: for every struct column X and every field name f that   *)
(* exists in X's schema, get(X, f) returns a column with as many rows as X*)
(* whose value at every row is the value of field f in that row.          *)
C1_Original ==
    (IsGet /\ x.isStruct /\ call.field.kind = "str" /\ call.field.s \in LabelsOf(x.names))
    => /\ result.status = "ok"
       /\ result.kind = "column"
       /\ NumRows(result.col) = NumRows(x)
       /\ \E p \in PositionsOf(x.names, call.field.s) :
              \A r \in 1..NumRows(x) : Cells(result.col)[r] = x.children[p + 1][r]

(* C1, amended: for every struct column X and every field name f that     *)
(* occurs at exactly one position p of X's schema, get(X, f) returns a    *)
(* column with as many rows as X whose value at every row r is the cell   *)
(* of field p in row r of X, in the same row order.                       *)
C1_GetUniqueName ==
    \A p \in 0..(Len(x.names) - 1) :
        (IsGet /\ x.isStruct /\ call.field.kind = "str"
            /\ PositionsOf(x.names, call.field.s) = {p})
        => /\ result.status = "ok"
           /\ result.kind = "column"
           /\ ~result.col.isStruct
           /\ NumRows(result.col) = NumRows(x)
           /\ Len(Cells(result.col)) = NumRows(x)
           /\ \A r \in 1..NumRows(x) : Cells(result.col)[r] = x.children[p + 1][r]

C1_Witness ==
    /\ IsGet /\ x.isStruct
    /\ x.names = <<"a", "b">>
    /\ call.field = ByName("b")
    /\ x.children = << <<IntV(1), IntV(1)>>, <<Null, IntV(1)>> >>
    /\ result.status = "ok"
    /\ Cells(result.col) = <<Null, IntV(1)>>

(* C2, as stated: for any ordered list ids of valid identifiers (names,   *)
(* positions or a mix, repeats allowed), project(X, ids) returns a struct *)
(* column with the row count of X whose schema has one field per entry of *)
(* ids, in order, named [resolve_label(schema, id) for id in ids].        *)
C2_Original ==
    (IsProject /\ x.isStruct /\ \A id \in RequestedIds : ValidId(id))
    => /\ result.status = "ok"
       /\ result.kind = "column"
       /\ result.col.isStruct
       /\ NumRows(result.col) = NumRows(x)
       /\ Len(result.col.names) = Len(call.fields)
       /\ \A k \in 1..Len(call.fields) :
              result.col.names[k] = _get_struct_field_label(x.names, call.fields[k]).label

(* C3, as stated: the validator checks only name-valued identifiers; an   *)
(* integer identifier passed to get or project is never rejected as an    *)
(* unknown field, only a name absent from the schema is.                  *)
C3_Original ==
    ((IsGet \/ IsProject) /\ x.isStruct /\ PositionsInRange)
    => /\ result.status = "ValueError" => AbsentNames # {}
       /\ \A id \in result.missing : id.kind = "str"

(* C4, as stated: get or project called with names that do not exist in   *)
(* the schema fails with UnknownField and returns no column, the missing  *)
(* set being exactly the requested names absent from the schema and the   *)
(* valid set exactly the distinct names of the schema; when every         *)
(* requested name exists no UnknownField is raised.                       *)
C4_Original ==
    ((IsGet \/ IsProject) /\ x.isStruct /\ PositionsInRange)
    => /\ AbsentNames # {}
          => /\ result.status = "ValueError"
             /\ result.kind = "none"
             /\ result.missing = AbsentNames
             /\ result.validFields = LabelsOf(x.names)
       /\ AbsentNames = {} => result.status # "ValueError"

(* C5: the struct type check is the first step of get and of project: on  *)
(* a non-struct input each raises TypeMismatch, whatever the fields, also *)
(* unknown ones, and produces no column and no UnknownField.              *)
C5_TypeCheckFirst ==
    ((IsGet \/ IsProject) /\ ~x.isStruct)
    => /\ result.status = "TypeMismatch"
       /\ result.kind = "none"
       /\ result.col = NoColumn
       /\ result.missing = {}

C5_Witness ==
    /\ IsProject /\ ~x.isStruct
    /\ NumRows(x) = 1
    /\ call.fields = <<ByName(UnknownLabel), ByName("a")>>
    /\ result.status = "TypeMismatch"

(* C6, as stated: get yields null at every row whose struct value is      *)
(* null; at a non-null row it yields null exactly when the targeted       *)
(* field's own value is null.                                             *)
C6_Original ==
    (IsGet /\ x.isStruct /\ result.status = "ok")
    => \A r \in 1..NumRows(x) :
           /\ ~x.valid[r] => Cells(result.col)[r] = Null
           /\ x.valid[r] =>
                  \E p \in PositionsOf(x.names, call.field.s) :
                      (Cells(result.col)[r] = Null) <=> (x.children[p + 1][r] = Null)

(* C7: for a struct value whose schema has duplicate labels, format       *)
(* returns '{' + entries joined by ', ' + '}', one entry per field in     *)
(* position order, entry k being 'name_k(k)': and the JSON encoding of    *)
(* the value at position k; schema [a, a] with values [1, 2] gives        *)
(* {'a(0)': 1, 'a(1)': 2}.  Values are taken by position.                 *)
JsonOf(v) ==
    IF v = Null THEN "null"
    ELSE IF v = BoolV(TRUE) THEN "true"
    ELSE IF v = BoolV(FALSE) THEN "false"
    ELSE IF v.kind = "str" THEN "\"" \o v.s \o "\""
    ELSE ToString(v.i)

RECURSIVE EntriesUpTo(_, _)
EntriesUpTo(item, n) ==
    IF n = 0 THEN ""
    ELSE EntriesUpTo(item, n - 1) \o (IF n = 1 THEN "" ELSE ", ")
         \o "'" \o item.names[n] \o "(" \o ToString(n - 1) \o ")': " \o JsonOf(item.values[n])

C7_FormatDuplicated ==
    (call.op = "format_struct_item_vaex_style"
        /\ \E p, q \in 1..Len(call.item.names) : p # q /\ call.item.names[p] = call.item.names[q])
    => /\ result.status = "ok"
       /\ result.kind = "text"
       /\ result.text = "{" \o EntriesUpTo(call.item, Len(call.item.names)) \o "}"
       /\ (call.item = [names |-> <<"a", "a">>, values |-> <<IntV(1), IntV(2)>>]
              => result.text = "{'a(0)': 1, 'a(1)': 2}")

C7_Witness ==
    /\ call.op = "format_struct_item_vaex_style"
    /\ call.item = [names |-> <<"a", "a">>, values |-> <<IntV(1), IntV(2)>>]
    /\ result.text = "{'a(0)': 1, 'a(1)': 2}"

(* C8: has_duplicate_labels(schema) is true if and only if some field     *)
(* name occurs at two or more positions of the schema; it is false for    *)
(* every schema of pairwise distinct names, the empty schema included.    *)
C8_DuplicatedIff ==
    call.op = "is_struct_dtype_with_duplicated_field_labels"
    => /\ result.kind = "flag"
       /\ result.flag <=> (\E p, q \in 1..Len(call.dtype) :
                               p # q /\ call.dtype[p] = call.dtype[q])
       /\ call.dtype = <<>> => ~result.flag

C8_Witness ==
    /\ call.op = "is_struct_dtype_with_duplicated_field_labels"
    /\ call.dtype = <<"a", "a", "b">>
    /\ result.flag

(* C9, as stated: resolve_label returns a name unchanged without checking *)
(* it; a position inside [0, len(schema)) gives the name at that position;*)
(* a position outside [0, len(schema)) fails with IndexOutOfRange.        *)
C9_Original ==
    call.op = "_get_struct_field_label"
    => /\ call.field.kind = "str"
          => result.status = "ok" /\ result.label = call.field.s
       /\ InRange(call.field, Len(call.dtype))
          => result.status = "ok" /\ result.label = call.dtype[call.field.i + 1]
       /\ (call.field.kind = "int" /\ ~InRange(call.field, Len(call.dtype)))
          => result.status = "IndexError"

(* C9, amended: resolve_label returns a name unchanged without checking   *)
(* it; a position inside [0, len(schema)) gives the name at that position;*)
(* a negative position inside [-len(schema), 0) counts from the end and   *)
(* gives the name at position len(schema) + id; a position outside        *)
(* [-len(schema), len(schema)) fails with IndexOutOfRange.                *)
C9_ResolveLabel ==
    call.op = "_get_struct_field_label"
    => /\ call.field.kind = "str"
          => result.status = "ok" /\ result.label = call.field.s
       /\ InRange(call.field, Len(call.dtype))
          => result.status = "ok" /\ result.label = call.dtype[call.field.i + 1]
       /\ (call.field.kind = "int" /\ 0 - Len(call.dtype) <= call.field.i /\ call.field.i < 0)
          => /\ result.status = "ok"
             /\ result.label = call.dtype[Len(call.dtype) + call.field.i + 1]
       /\ (call.field.kind = "int"
              /\ (call.field.i >= Len(call.dtype) \/ call.field.i < 0 - Len(call.dtype)))
          => result.status = "IndexError" /\ result.kind = "none"

C9_Witness ==
    /\ call.op = "_get_struct_field_label"
    /\ call.dtype = <<"a", "b">>
    /\ call.field = ByPosition(2)
    /\ result.status = "IndexError"

(* C10, as stated: for every struct column X and every valid ordered    *)
(* list ids (names present in the schema or positions inside              *)
(* [0, len(schema)), repeats allowed), the k-th field of project(X, ids)  *)
(* equals get(X, ids[k]) row by row, nulls included: the cells of the     *)
(* field of X that ids[k] denotes; X is left unchanged; fields            *)
(* col1=[1,2], col2=[a,b], col3=[3,4] projected on [col3, col1] give rows *)
(* {col3:3, col1:1} and {col3:4, col1:2} in that field order.             *)
DenotedPositions(id) ==
    IF id.kind = "str" THEN PositionsOf(x.names, id.s) ELSE {id.i}

C10_Original ==
    (IsProject /\ x.isStruct /\ \A id \in RequestedIds : ValidId(id))
    => /\ x = x0
       /\ result.status = "ok"
       /\ result.kind = "column"
       /\ result.col.isStruct
       /\ Len(result.col.children) = Len(call.fields)
       /\ \A k \in 1..Len(call.fields) :
              /\ struct_get(x, call.fields[k]).status = "ok"
              /\ result.col.children[k] = Cells(struct_get(x, call.fields[k]).col)
              /\ \E p \in DenotedPositions(call.fields[k]) :
                     result.col.children[k] = x.children[p + 1]
       /\ (x = DocArray /\ call.fields = <<ByName("col3"), ByName("col1")>>)
          => result.col = [isStruct |-> TRUE, names |-> <<"col3", "col1">>,
                           valid |-> <<TRUE, TRUE>>,
                           children |-> << <<IntV(3), IntV(4)>>, <<IntV(1), IntV(2)>> >>]
====
